---- MODULE Spec2Model ----
(***************************************************************************)
(* The ARW2 pixel codec of raw-tiff-edit (src/src/rawloader.rs): the tone   *)
(* curve (LookupTable), the LSB-first bit reader (BitPumpLSB), the bit      *)
(* writer (ReverseBitPump), decode_arw2 and encode_arw2.                    *)
(*                                                                          *)
(* Machine integers: u16/u32 values that stay below 2^31 are integers; the  *)
(* u64 bit accumulators of the two bit pumps and the u32 fields pushed      *)
(* through them are vectors of bits (index 0 = least significant bit).      *)
(***************************************************************************)
EXTENDS Integers, Sequences, FiniteSets, TLC

VARIABLES
  width,     \* decode_arw2 / encode_arw2 parameter `width`
  height,    \* decode_arw2 parameter `height`
  build,     \* "debug" | "release": whether integer overflow panics or wraps
  img,       \* encode_arw2 parameter `img`
  first,     \* the samples the first encode/decode round trip returned
  round,     \* 1 | 2: which round trip is running
  pc,        \* position of the caller: which function runs, or what it left
  blk,       \* encode_arw2: number of 32-sample blocks already packed
  result,    \* encode_arw2: `result`, the bytes produced so far
  wpump,     \* encode_arw2: the block's ReverseBitPump as into_data received it
  encLog,    \* encode_arw2: per block, the codes and the fields of both phases
  buf,       \* decode_arw2 parameter `buf`
  row,       \* decode_arw2: number of rows already unpacked
  out,       \* decode_arw2: `result`, the samples (0 where not yet written)
  rpump,     \* decode_arw2: the row's BitPumpLSB as the row loop left it
  decLog,    \* decode_arw2: per block, the codes and the fields of both phases
  outcome,   \* "none" | "returned" | "panic": how the running call ended
  fields,    \* bit pump round trip: the fields pushed so far
  reads,     \* bit pump round trip: the values get_bits returned so far
  query,     \* tone curve: the value handed to reverse_lookup
  found      \* tone curve: what reverse_lookup returned

vars == <<width, height, build, img, first, round, pc, blk, result, wpump,
          encLog, buf, row, out, rpump, decLog, outcome, fields, reads,
          query, found>>

(***************************************************************************)
(* Arithmetic helpers                                                       *)
(***************************************************************************)
Min(a, b) == IF a < b THEN a ELSE b

Max(a, b) == IF a > b THEN a ELSE b

Abs(a) == IF a < 0 THEN -a ELSE a

\* 1 << n, n <= 30.
Pow2(n) == <<1, 2, 4, 8, 16, 32, 64, 128, 256, 512, 1024, 2048, 4096, 8192,
             16384, 32768, 65536, 131072, 262144, 524288, 1048576, 2097152,
             4194304, 8388608, 16777216, 33554432, 67108864, 134217728,
             268435456, 536870912, 1073741824>>[n + 1]

\* Number of significant bits of x (0 for x = 0): w - leading_zeros of a w-bit x.
BitLength(x) == IF x = 0 THEN 0 ELSE CHOOSE n \in 1..31 : Pow2(n - 1) <= x /\ (n = 31 \/ x < Pow2(n))

\* u16::leading_zeros / u32::leading_zeros for a value that fits the type.
leading_zeros(x, w) == w - BitLength(x)

\* e, with x evaluated first: TLC evaluates operator arguments on demand,
\* and a value computed step by step is best computed as the steps go.
Strict(x, e) == IF x = x THEN e ELSE e

\* The element of a one-element set. The({F(x) : x \in {e}}) is F(e) with e
\* evaluated once, before F is applied to its value.
The(S) == CHOOSE r \in S : TRUE

\* f itself, tabulated once instead of recomputed at every application.
Tabulated(f) == Strict(f, f)

(***************************************************************************)
(* Tone curve                                                               *)
(***************************************************************************)
centry == <<8000, 10400, 12900, 14100>>

\* curve[0..5] of calculate_curve, as a sequence indexed 1..6.
curve == <<0>> \o [i \in 1..4 |-> (centry[i] \div 4) % 4096] \o <<4095>>

TableLen == curve[6] + 1

\* out[curve[i]] of calculate_curve: the value the inner loop of segment i-1
\* leaves at its last index (segment s adds 1 << s per index).
RECURSIVE SegmentStart(_)
SegmentStart(s) ==
  IF s = 0 THEN 0
  ELSE SegmentStart(s - 1) + (curve[s + 1] - curve[s]) * Pow2(s - 1)

\* The segment whose loop writes out[j], j >= 1.
SegmentOf(j) == CHOOSE s \in 0..4 : curve[s + 1] < j /\ j <= curve[s + 2]

\* The array `out` of calculate_curve.
curve_out == [j \in 0..(TableLen - 1) |->
                IF j = 0 THEN 0
                ELSE LET s == SegmentOf(j)
                     IN SegmentStart(s) + (j - curve[s + 1]) * Pow2(s)]

\* LookupTable::new: (center, base, delta) per index.
LookupTable(table, len) ==
  [i \in 0..(len - 1) |->
     LET center == table[i]
         lower == IF i > 0 THEN table[i - 1] ELSE center
         upper == IF i < len - 1 THEN table[i + 1] ELSE center
         base == IF center = 0 THEN 0 ELSE center - ((upper - lower + 2) \div 4)
         delta == upper - lower
     IN <<center, base, delta>>]

calculate_curve == Tabulated(LookupTable(curve_out, TableLen))

\* LookupTable::dither: the pixel and the advanced random state.
dither(value, rand) ==
  LET base == calculate_curve[value][2]
      delta == calculate_curve[value][3]
      pixel == base + ((delta * (rand % 2048) + 1024) \div 4096)
  IN <<pixel % 65536, 15700 * (rand % 65536) + (rand \div 65536)>>

\* slice::binary_search_by_key over the base column: the first index in
\* [lo, hi) whose base is >= value (hi when there is none).
RECURSIVE LowerBound(_, _, _)
LowerBound(lo, hi, value) ==
  IF lo >= hi THEN lo
  ELSE LET mid == (lo + hi) \div 2
       IN IF calculate_curve[mid][2] < value
          THEN LowerBound(mid + 1, hi, value)
          ELSE LowerBound(lo, mid, value)

\* The indices binary_search_by_key may return: any index whose base equals
\* value (Ok), the insertion point otherwise (Err).
binary_search(value) ==
  LET lb == LowerBound(0, TableLen, value)
      ub == LowerBound(0, TableLen, value + 1)
  IN IF lb < ub THEN lb..(ub - 1) ELSE {lb}

RANGE == 2

\* The scan of reverse_lookup from binary-search result bs: the first index
\* of table[start_index..end_index] whose center is nearest to value.
ScanWindow(bs, value) ==
  LET start_index == Max(bs - RANGE, 0)
      end_index == Min(start_index + 2 * RANGE, TableLen - 1)
      dist(k) == Abs(calculate_curve[k][1] - value)
  IN CHOOSE k \in start_index..(end_index - 1) :
       /\ \A m \in start_index..(end_index - 1) : dist(k) <= dist(m)
       /\ \A m \in start_index..(k - 1) : dist(m) > dist(k)

\* LookupTable::reverse_lookup. The binary search is taken at its first match:
\* the base column repeats a value only at indices 0 and 1 (base 0), and both
\* give start_index 0.
reverse_lookup(value) == ScanWindow(LowerBound(0, TableLen, value), value)

(***************************************************************************)
(* 64-bit accumulators as bit vectors: b[i + 1] is bit i                    *)
(***************************************************************************)
Zeros(n) == SubSeq(<<0, 0, 0, 0, 0, 0, 0, 0, 0, 0, 0, 0, 0, 0, 0, 0,
                     0, 0, 0, 0, 0, 0, 0, 0, 0, 0, 0, 0, 0, 0, 0, 0,
                     0, 0, 0, 0, 0, 0, 0, 0, 0, 0, 0, 0, 0, 0, 0, 0,
                     0, 0, 0, 0, 0, 0, 0, 0, 0, 0, 0, 0, 0, 0, 0, 0>>, 1, n)

Zero64 == Zeros(64)

\* The bits of x, least significant first, n <= 31 of them.
BitsOf(x, n) == [i \in 1..n |-> (x \div Pow2(i - 1)) % 2] \o <<>>

\* x as u64, for an integer 0 <= x < 2^31.
U64(x) == BitsOf(x, 31) \o Zeros(33)

\* The n bits of b from bit lo on as an integer, n <= 30.
RECURSIVE BitsValue(_, _, _)
BitsValue(b, lo, n) ==
  IF n = 0 THEN 0
  ELSE IF n = 1 THEN b[lo + 1]
  ELSE LET h == n \div 2
       IN BitsValue(b, lo, h) + Pow2(h) * BitsValue(b, lo + h, n - h)

\* The low n bits of b as an integer, n <= 30.
LowBits(b, n) == BitsValue(b, 0, n)

\* u64 `<<` and `>>` by k <= 64: the bits shifted out are lost.
Shl(b, k) == Zeros(k) \o SubSeq(b, 1, 64 - k)

Shr(b, k) == SubSeq(b, k + 1, 64) \o Zeros(k)

\* u64 `|`.
BitOr(a, b) == Tabulated([i \in 1..64 |-> IF a[i] = 1 \/ b[i] = 1 THEN 1 ELSE 0])

\* b & (0xFFFFFFFF >> (32 - n)), 0 <= n <= 32.
MaskLow(b, n) == SubSeq(b, 1, n) \o Zeros(64 - n)

(***************************************************************************)
(* BitPumpLSB                                                               *)
(***************************************************************************)
\* BitPumpLSB::new. `fault` records that a slice index panicked.
BitPumpLSB(src) == [buffer |-> src, pos |-> 0, bits |-> Zero64, nbits |-> 0,
                    fault |-> FALSE]

\* LEu32: the little-endian u32 at buf[pos..pos + 4] (0-based pos), as u64.
LEu32(buffer, pos) ==
  BitsOf(buffer[pos + 1], 8) \o BitsOf(buffer[pos + 2], 8)
    \o BitsOf(buffer[pos + 3], 8) \o BitsOf(buffer[pos + 4], 8) \o Zeros(32)

\* Refill with the bits still buffered dropped instead of kept below the new
\* word.
RefillDroppingBuffered(pump) ==
  IF pump.pos + 4 > Len(pump.buffer)
  THEN [pump EXCEPT !.fault = TRUE]
  ELSE [pump EXCEPT !.bits = LEu32(pump.buffer, pump.pos),
                    !.pos = pump.pos + 4,
                    !.nbits = pump.nbits + 32]

\* The refill of peek_bits; the slice buf[pos..pos + 4] panics past the end.
Refill(pump) ==
  IF pump.pos + 4 > Len(pump.buffer)
  THEN [pump EXCEPT !.fault = TRUE]
  ELSE LET inbits == LEu32(pump.buffer, pump.pos)
       IN [pump EXCEPT
             !.bits = Shr(BitOr(Shl(inbits, 32), Shl(pump.bits, 32 - pump.nbits)),
                          32 - pump.nbits),
             !.pos = pump.pos + 4,
             !.nbits = pump.nbits + 32]

\* BitPumpLSB::peek_bits: <<pump after the call, value>>.
peek_bits(pump, num) ==
  The({<<p, MaskLow(p.bits, num)>> :
         p \in {IF num > pump.nbits THEN Refill(pump) ELSE pump}})

\* BitPumpLSB::consume_bits.
consume_bits(pump, num) ==
  [pump EXCEPT !.nbits = pump.nbits - num, !.bits = Shr(pump.bits, num)]

\* BitPumpLSB::get_bits: <<pump after the call, value>>.
get_bits(pump, num) ==
  IF num = 0 THEN <<pump, Zero64>>
  ELSE The({IF pk[1].fault THEN pk ELSE <<consume_bits(pk[1], num), pk[2]>> :
              pk \in {peek_bits(pump, num)}})

(***************************************************************************)
(* ReverseBitPump                                                           *)
(***************************************************************************)
ReverseBitPump == [data |-> <<>>, bits |-> Zero64, n_bits |-> 0]

\* The flush loop with `>` for `>=`: a full byte stays in the accumulator.
RECURSIVE FlushAboveEight(_)
FlushAboveEight(pump) ==
  IF pump.n_bits <= 8 THEN pump
  ELSE FlushAboveEight([data |-> Append(pump.data, LowBits(pump.bits, 8)),
                        bits |-> Shr(pump.bits, 8),
                        n_bits |-> pump.n_bits - 8])

\* The `while self.n_bits >= 8` loop of push_bits.
RECURSIVE Flush(_)
Flush(pump) ==
  IF pump.n_bits < 8 THEN pump
  ELSE Flush([data |-> Append(pump.data, LowBits(pump.bits, 8)),
              bits |-> Shr(pump.bits, 8),
              n_bits |-> pump.n_bits - 8])

\* ReverseBitPump::push_bits, val a u32 given as a bit vector.
push_bits(pump, val, n_bits) ==
  Flush([pump EXCEPT
           !.bits = BitOr(pump.bits, Shl(MaskLow(val, n_bits), pump.n_bits)),
           !.n_bits = pump.n_bits + n_bits])

\* push_bits for each <<val, n_bits>> of a sequence, in order.
RECURSIVE PushAll(_, _, _)
PushAll(pump, fs, k) ==
  IF k > Len(fs) THEN pump
  ELSE LET p == push_bits(pump, fs[k][1], fs[k][2])
       IN Strict(p, PushAll(p, fs, k + 1))

(***************************************************************************)
(* decode_arw2                                                              *)
(***************************************************************************)
\* The running state of one row of decode_arw2: the pump, `random`, the
\* output, whether a panic ended the call, the locals max, min, imax, imin
\* and the last residual read (val), and the codes and phase fields of the
\* block being unpacked.
DecodeState(pump, random, output) ==
  [pump |-> pump, random |-> random, out |-> output, panic |-> FALSE,
   max |-> 0, min |-> 0, imax |-> 0, imin |-> 0, val |-> 0,
   codes |-> <<>>, hdr |-> <<>>, log |-> <<>>]

Panicked(st) == [st EXCEPT !.panic = TRUE]

\* `let local = pump.get_bits(num)`, num <= 16; a faulting refill panics.
Take(st, num, local) ==
  The({IF s.panic THEN s
       ELSE The({IF g[1].fault
                 THEN [s EXCEPT !.pump = g[1], !.panic = TRUE]
                 ELSE [s EXCEPT !.pump = g[1], ![local] = LowBits(g[2], num)] :
                   g \in {get_bits(s.pump, num)}}) :
         s \in {st}})

\* cmp::max(0, (32 - delta.leading_zeros()) - 7) for delta = max - min in u32.
\* max < min wraps (release build) to a value with bit 31 set: no leading zero.
decode_shift(max, min) ==
  IF max >= min THEN Max(0, (32 - leading_zeros(max - min, 32)) - 7)
  ELSE Max(0, (32 - 0) - 7)

\* The residual scaled but not offset from min.
decode_value_without_min(bits, delta_shift, min) ==
  IF delta_shift >= 11
  THEN (IF bits = 0 THEN 0 ELSE 2047)
  ELSE Min(2047, bits * Pow2(delta_shift))

\* cmp::min(0x7ff, (bits << delta_shift) + min); the sum stays below 2^32.
decode_value(bits, delta_shift, min) ==
  IF delta_shift >= 11
  THEN (IF bits = 0 THEN Min(2047, min) ELSE 2047)
  ELSE Min(2047, bits * Pow2(delta_shift) + min)

\* One iteration of `for i in 0..16`: sample i of phase j of the chunk of
\* clen samples that starts at offset off of the output; h holds the fields
\* max, min, imax, imin and shift of the phase.
DecodeSample(st, i, j, off, clen, h) ==
  IF st.panic THEN st
  ELSE The({LET val == IF i = h.imax THEN h.max
                       ELSE IF i = h.imin THEN h.min
                       ELSE decode_value(s1.val, h.shift, h.min)
                d == dither((val * 2) % 65536, s1.random)
            IN IF s1.panic THEN s1
               ELSE IF j + (i * 2) >= clen THEN Panicked(s1)
               ELSE [s1 EXCEPT !.out[off + j + (i * 2) + 1] = d[1],
                               !.random = d[2],
                               !.codes[j + (i * 2) + 1] = val] :
              s1 \in {IF i = h.imax \/ i = h.imin THEN st
                      ELSE Take(st, 7, "val")}})

RECURSIVE DecodeSamples(_, _, _, _, _, _)
DecodeSamples(st, i, j, off, clen, h) ==
  The({IF i = 16 \/ s.panic THEN s
       ELSE DecodeSamples(DecodeSample(s, i, j, off, clen, h),
                          i + 1, j, off, clen, h) :
         s \in {st}})

\* `let delta = max - min` in u32: the subtraction overflows when max < min,
\* where a debug build panics and a release build wraps.
delta_overflow(st) ==
  The({IF ~s.panic /\ s.max < s.min /\ build = "debug" THEN Panicked(s) ELSE s :
         s \in {st}})

\* The four header reads of a phase, in order.
PhaseHeader(st) ==
  Take(Take(delta_overflow(Take(Take(st, 11, "max"), 11, "min")),
            4, "imax"),
       4, "imin")

\* The fields of the phase whose header reads left st.
PhaseFields(st) ==
  [max |-> st.max, min |-> st.min, imax |-> st.imax, imin |-> st.imin,
   shift |-> decode_shift(st.max, st.min)]

\* One iteration of `for j in 0..2`.
DecodePhase(st, j, off, clen) ==
  The({IF s.panic THEN s
       ELSE The({DecodeSamples([s EXCEPT !.hdr = Append(s.hdr, h)],
                               0, j, off, clen, h) :
                   h \in {PhaseFields(s)}}) :
         s \in {PhaseHeader(st)}})

\* One iteration of `for out in out.chunks_mut(32)`.
DecodeChunk(st, off, clen) ==
  The({[s2 EXCEPT !.log = Append(s2.log, [codes |-> s2.codes, hdr |-> s2.hdr])] :
         s2 \in {DecodePhase(
                   DecodePhase([st EXCEPT !.codes = [k \in 1..32 |-> 0],
                                          !.hdr = <<>>],
                               0, off, clen),
                   1, off, clen)}})

RECURSIVE DecodeChunks(_, _, _, _)
DecodeChunks(st, done, rowoff, w) ==
  The({IF s.panic \/ done >= w THEN s
       ELSE DecodeChunks(DecodeChunk(s, rowoff + done, Min(32, w - done)),
                         done + 32, rowoff, w) :
         s \in {st}})

\* The body of `for (row, out) in result.chunks_mut(width).enumerate()`.
decode_row(buffer, w, r, output) ==
  IF r * w > Len(buffer) THEN Panicked(DecodeState(BitPumpLSB(<<>>), 0, output))
  ELSE The({IF pk[1].fault THEN Panicked(DecodeState(pk[1], 0, output))
            ELSE DecodeChunks(DecodeState(pk[1], LowBits(pk[2], 16), output),
                              0, r * w, w) :
              pk \in {peek_bits(BitPumpLSB(SubSeq(buffer, r * w + 1, Len(buffer))),
                                16)}})

(***************************************************************************)
(* encode_arw2                                                              *)
(***************************************************************************)
\* The encoder's shift with the 32-bit formula's constant on the 16-bit count.
encode_shift_width32(delta) == Max(0, (32 - leading_zeros(delta, 16)) - 7)

\* cmp::max(0, (16 - delta.leading_zeros()) - 7) for the u16 delta.
encode_shift(delta) == Max(0, (16 - leading_zeros(delta, 16)) - 7)

\* The tie-break with its comparison inverted (`!=` for `==`).
tie_break_inverted(imax, imin) ==
  IF imax # imin /\ imin > 0 THEN imin - 1
  ELSE IF imax # imin THEN imin + 1
  ELSE imin

\* The tie-break of lines 232-236 on the halved indices.
tie_break(imax, imin) ==
  IF imax = imin /\ imin > 0 THEN imin - 1
  ELSE IF imax = imin THEN imin + 1
  ELSE imin

\* The fields of phase j, from the 32 codes vals (vals[k + 1] is code k).
encode_phase(vals, j) ==
  LET idx == {i \in 0..31 : i % 2 = j}
      max == CHOOSE v \in {vals[i + 1] : i \in idx} :
               \A i \in idx : vals[i + 1] <= v
      min == CHOOSE v \in {vals[i + 1] : i \in idx} :
               \A i \in idx : vals[i + 1] >= v
      \* max_by_key returns the last maximum, min_by_key the first minimum
      imax0 == CHOOSE i \in idx :
                 vals[i + 1] = max /\ \A k \in idx : vals[k + 1] = max => k <= i
      imin0 == CHOOSE i \in idx :
                 vals[i + 1] = min /\ \A k \in idx : vals[k + 1] = min => k >= i
      imax == imax0 \div 2
      imin == tie_break(imax, imin0 \div 2)
      delta == max - min
      delta_shift == encode_shift(delta)
  IN [max |-> max, min |-> min, imax |-> imax, imin |-> imin,
      shift |-> delta_shift]

\* The pushes of phase j with only imax skipped: 15 residuals.
phase_pushes_skipping_imax(vals, j, h) ==
  LET keep(i) == i # h.imax
      rest == SelectSeq(<<0, 1, 2, 3, 4, 5, 6, 7, 8, 9, 10, 11, 12, 13, 14, 15>>, keep)
      residual(i) == ((vals[2 * i + j + 1] - h.min) \div Pow2(h.shift)) % 128
  IN << <<U64(h.max % 2048), 11>>, <<U64(h.min % 2048), 11>>,
        <<U64(h.imax % 16), 4>>, <<U64(h.imin % 16), 4>> >>
     \o [k \in 1..Len(rest) |-> <<U64(residual(rest[k])), 7>>]

\* The pushes of phase j in order, each <<val, n_bits>>.
phase_pushes(vals, j, h) ==
  LET keep(i) == i # h.imax /\ i # h.imin
      rest == SelectSeq(<<0, 1, 2, 3, 4, 5, 6, 7, 8, 9, 10, 11, 12, 13, 14, 15>>, keep)
      residual(i) == ((vals[2 * i + j + 1] - h.min) \div Pow2(h.shift)) % 128
  IN << <<U64(h.max % 2048), 11>>, <<U64(h.min % 2048), 11>>,
        <<U64(h.imax % 16), 4>>, <<U64(h.imin % 16), 4>> >>
     \o [k \in 1..Len(rest) |-> <<U64(residual(rest[k])), 7>>]

\* The body of `for input in input.chunks(32)` up to into_data, for a chunk
\* of 32 samples: the pump as into_data receives it, the codes and fields.
encode_block(input) ==
  LET vals == Tabulated([k \in 1..32 |-> reverse_lookup(input[k]) \div 2])
      h0 == encode_phase(vals, 0)
      h1 == encode_phase(vals, 1)
  IN [pump |-> PushAll(PushAll(ReverseBitPump, phase_pushes(vals, 0, h0), 1),
                       phase_pushes(vals, 1, h1), 1),
      log |-> [codes |-> vals, hdr |-> <<h0, h1>>]]

(***************************************************************************)
(* Inputs                                                                   *)
(***************************************************************************)
MaxBlocksPerRow == 2

MaxRows == 2

\* Sample arrays: a ramp of stride s from a, visited in the order k * m mod 32
\* (m odd), wrapping in u16. s = 0 gives phases whose 16 codes are all equal.
Starts == {0, 5, 3000, 65535}

Strides == {0, 1, 20, 37, 600}

Orders == {1, 31}

Sample(k, a, s, m) == (a + s * ((k * m) % 32) + (k \div 32)) % 65536

NoPump == [data |-> <<>>, bits |-> Zero64, n_bits |-> 0]

NoReader == BitPumpLSB(<<>>)

(***************************************************************************)
(* The round trip encode_arw2 -> decode_arw2, run twice                     *)
(***************************************************************************)
Init ==
  /\ \E wb \in 1..MaxBlocksPerRow, h \in 1..MaxRows,
        a \in Starts, s \in Strides, m \in Orders :
       /\ width = 32 * wb
       /\ height = h
       /\ img = [k \in 1..(32 * wb * h) |-> Sample(k - 1, a, s, m)]
  /\ build \in {"debug", "release"}
  /\ first = <<>>
  /\ round = 1
  /\ pc = "encode"
  /\ blk = 0
  /\ result = <<>>
  /\ wpump = NoPump
  /\ encLog = <<>>
  /\ buf = <<>>
  /\ row = 0
  /\ out = <<>>
  /\ rpump = NoReader
  /\ decLog = <<>>
  /\ outcome = "none"
  /\ fields = <<>>
  /\ reads = <<>>
  /\ query = 0
  /\ found = [bs |-> 0, index |-> 0]

\* Number of 32-sample chunks of img: each row of `width` samples in turn.
NBlocks == (Len(img) \div width) * (width \div 32)

\* One iteration of `for input in input.chunks(32)` of encode_arw2.
EncodeBlock ==
  /\ pc = "encode"
  /\ blk < NBlocks
  /\ LET bpr == width \div 32
         off == (blk \div bpr) * width + (blk % bpr) * 32
         e == encode_block(SubSeq(img, off + 1, off + 32))
     IN /\ wpump' = e.pump
        /\ encLog' = Append(encLog, e.log)
        /\ IF e.pump.n_bits # 0         \* assert_eq!(self.n_bits, 0)
           THEN outcome' = "panic" /\ pc' = "encoded" /\ UNCHANGED <<result, blk>>
           ELSE /\ result' = result \o e.pump.data
                /\ blk' = blk + 1
                /\ UNCHANGED <<outcome, pc>>
  /\ UNCHANGED <<width, height, build, img, first, round, buf, row, out, rpump,
                 decLog, fields, reads, query, found>>

\* encode_arw2 returns `result`; the caller hands it to decode_arw2.
EncodeReturn ==
  /\ pc = "encode"
  /\ blk = NBlocks
  /\ pc' = "call_decode"
  /\ buf' = result
  /\ UNCHANGED <<width, height, build, img, first, round, blk, result, wpump,
                 encLog, row, out, rpump, decLog, outcome, fields, reads,
                 query, found>>

\* decode_arw2 up to the row loop: the output is allocated and chunked.
DecodeEnter ==
  /\ pc = "call_decode"
  /\ row' = 0
  /\ decLog' = <<>>
  /\ rpump' = NoReader
  /\ out' = [k \in 1..(width * height) |-> 0]
  /\ IF width = 0                       \* chunks_mut(0) panics
     THEN outcome' = "panic" /\ pc' = "decoded"
     ELSE outcome' = "none" /\ pc' = "decode"
  /\ UNCHANGED <<width, height, build, img, first, round, blk, result, wpump,
                 encLog, buf, fields, reads, query, found>>

\* One iteration of the row loop of decode_arw2.
DecodeRow ==
  /\ pc = "decode"
  /\ row < height
  /\ LET st == decode_row(buf, width, row, out)
     IN /\ rpump' = st.pump
        /\ decLog' = decLog \o st.log
        /\ out' = st.out
        /\ IF st.panic
           THEN outcome' = "panic" /\ pc' = "decoded" /\ UNCHANGED row
           ELSE row' = row + 1 /\ UNCHANGED <<outcome, pc>>
  /\ UNCHANGED <<width, height, build, img, first, round, blk, result, wpump,
                 encLog, buf, fields, reads, query, found>>

\* decode_arw2 returns `result`.
DecodeReturn ==
  /\ pc = "decode"
  /\ row = height
  /\ outcome' = "returned"
  /\ pc' = "decoded"
  /\ UNCHANGED <<width, height, build, img, first, round, blk, result, wpump,
                 encLog, buf, row, out, rpump, decLog, fields, reads, query,
                 found>>

\* The decoded samples are encoded and decoded once more.
SecondRound ==
  /\ pc = "decoded"
  /\ outcome = "returned"
  /\ round = 1
  /\ round' = 2
  /\ first' = out
  /\ img' = out
  /\ pc' = "encode"
  /\ blk' = 0
  /\ result' = <<>>
  /\ encLog' = <<>>
  /\ outcome' = "none"
  /\ UNCHANGED <<width, height, build, wpump, buf, row, out, rpump, decLog,
                 fields, reads, query, found>>

Next ==
  \/ EncodeBlock
  \/ EncodeReturn
  \/ DecodeEnter
  \/ DecodeRow
  \/ DecodeReturn
  \/ SecondRound

Spec == Init /\ [][Next]_vars

(***************************************************************************)
(* Properties of the round trip (checked under Spec)                        *)
(***************************************************************************)
\* encode_arw2 has returned `result` for the current img.
Encoded == pc \in {"call_decode", "decode", "decoded"}

\* decLog holds the blocks decode_arw2 unpacked from the bytes encLog describes.
Decoding == pc \in {"decode", "decoded"}

\* C1: for a width that is a positive multiple of 32 and a sample array whose
\* length is a multiple of width, encode_arw2 never panics, adds exactly 32
\* bytes per 32-sample block and returns (samples.length / width) * width bytes.
C1_EncodeLength ==
  /\ pc # "encoded"
  /\ pc = "encode" => outcome = "none" /\ Len(result) = 32 * blk
  /\ Encoded => Len(result) = (Len(img) \div width) * width

C1_Witness ==
  /\ pc = "call_decode"
  /\ width = 64
  /\ height = 2
  /\ Len(result) = 128

\* C4: in every block and each of its two phases, the imax and imin fields
\* encode_arw2 writes differ, also when the 16 codes of the phase are equal;
\* decode_arw2 reads them back different.
C4_PhasesDistinguishable ==
  /\ \A b \in 1..Len(encLog) : \A j \in 1..2 :
       encLog[b].hdr[j].imax % 16 # encLog[b].hdr[j].imin % 16
  /\ Decoding => \A b \in 1..Len(decLog) : \A j \in 1..Len(decLog[b].hdr) :
       decLog[b].hdr[j].imax # decLog[b].hdr[j].imin

\* A phase whose 16 codes are all equal has been written and read back.
C4_Witness ==
  /\ pc = "decoded"
  /\ \E b \in 1..Len(encLog) : \E j \in 0..1 :
       /\ \A i \in 0..15 : encLog[b].codes[2 * i + j + 1] = encLog[b].hdr[j + 1].max
       /\ encLog[b].hdr[j + 1].max = encLog[b].hdr[j + 1].min
       /\ decLog[b].hdr[j + 1].imax # decLog[b].hdr[j + 1].imin

\* C7 as stated: the 11-bit codes decode_arw2 reconstructs from a block's 32
\* bytes equal, at each of the 32 positions, the codes the encoder derived
\* from the samples (reverse_lookup(sample) >> 1).
C7_CodesPreserved ==
  Decoding => \A b \in 1..Len(decLog) : decLog[b].codes = encLog[b].codes

\* The code decode_arw2 must reconstruct at position k of block b: the
\* encoder's code at the imax and imin positions of its phase, elsewhere the
\* code with the low `shift` bits of its offset from the phase minimum dropped.
QuantizedCode(b, k) ==
  LET h == encLog[b].hdr[(k % 2) + 1]
      c == encLog[b].codes[k + 1]
      step == Pow2(decLog[b].hdr[(k % 2) + 1].shift)
  IN IF k \div 2 = h.imax \/ k \div 2 = h.imin THEN c
     ELSE h.min + ((c - h.min) \div step) * step

\* C7 as amended: the codes decode_arw2 reconstructs equal the encoder's codes
\* at the imax and imin positions and, at the other 14 positions of a phase,
\* the encoder's code with the low `shift` bits of (code - min) dropped; they
\* equal the encoder's codes wherever the phase has max - min < 128.
C7_CodesQuantized ==
  Decoding => \A b \in 1..Len(decLog) : \A k \in 0..31 :
    /\ decLog[b].codes[k + 1] = QuantizedCode(b, k)
    /\ LET h == encLog[b].hdr[(k % 2) + 1]
       IN h.max - h.min < 128 => decLog[b].codes[k + 1] = encLog[b].codes[k + 1]

\* A block has been decoded with a residual that lost low bits, and another
\* phase with max - min < 128 and differing codes kept them all.
C7_Witness ==
  /\ pc = "decoded"
  /\ \E b \in 1..Len(decLog) : decLog[b].codes # encLog[b].codes
  /\ \E b \in 1..Len(decLog) :
       /\ encLog[b].hdr[1].max - encLog[b].hdr[1].min \in 1..127
       /\ decLog[b].codes = encLog[b].codes

\* The two shift formulas on every delta an 11-bit max and min can give.
ShiftFormulasAgree == \A delta \in 0..2047 : encode_shift(delta) = decode_shift(delta, 0)

\* C8: for every phase encode_arw2 emits, the encoder's residual shift (from
\* the 16-bit leading-zero count) equals the shift decode_arw2 computes (from
\* the 32-bit leading-zero count) from the max and min it reads back; the two
\* formulas agree for every delta in 0..2047.
C8_ShiftsAgree ==
  /\ Decoding => \A b \in 1..Len(decLog) : \A j \in 1..2 :
       /\ decLog[b].hdr[j].max = encLog[b].hdr[j].max
       /\ decLog[b].hdr[j].min = encLog[b].hdr[j].min
       /\ decLog[b].hdr[j].shift = encLog[b].hdr[j].shift
  /\ ShiftFormulasAgree

\* A phase whose delta needs all 11 bits (shift 4) has been written and read
\* back, beside a phase of another shift.
C8_Witness ==
  /\ pc = "decoded"
  /\ \E b \in 1..Len(decLog) : \E j \in 1..2 :
       /\ encLog[b].hdr[j].max - encLog[b].hdr[j].min >= 1024
       /\ decLog[b].hdr[j].shift = 4
  /\ \E b \in 1..Len(decLog) : \E j \in 1..2 : decLog[b].hdr[j].shift \in 1..3

\* C9: each time encode_arw2 finishes a block's bit writer (into_data), the
\* writer holds no residual bits: the assertion of into_data never fails and
\* every block pushes a whole number of bytes.
C9_WriterDrained ==
  /\ wpump.n_bits = 0
  /\ pc \in {"encode", "encoded"} => outcome # "panic"
  /\ blk > 0 => Len(wpump.data) = 32

C9_Witness ==
  /\ pc = "encode"
  /\ blk = NBlocks
  /\ blk = 4
  /\ wpump.n_bits = 0
  /\ Len(wpump.data) = 32

\* C3 as stated: a second encode/decode round trip returns the samples the
\* first one returned.
C3_RoundTripStable ==
  (pc = "decoded" /\ round = 2 /\ outcome = "returned") => out = first

(***************************************************************************)
(* decode_arw2 on arbitrary geometry and bytes                              *)
(***************************************************************************)
MaxWidthUnits == 4

\* Widths in steps of 16 samples: multiples of 32 and others, 0 included.
DecodeWidths == {16 * u : u \in 0..MaxWidthUnits}

\* Buffer length relative to width * height.
Slack == {-1, 0, 4}

\* What encode_arw2 packs a block of 32 zero samples into.
PackedZeros == encode_block([k \in 1..32 |-> 0]).pump.data

\* Buffer contents: one byte value throughout, a ramp, or a valid stream.
Contents == {"zeros", "ones", "ramp", "packed"}

Bytes(kind, n) ==
  [k \in 1..n |-> IF kind = "zeros" THEN 0
                  ELSE IF kind = "ones" THEN 255
                  ELSE IF kind = "ramp" THEN ((k - 1) * 37 + 11) % 256
                  ELSE PackedZeros[((k - 1) % 32) + 1]]

InitDecode ==
  /\ \E w \in DecodeWidths, h \in 0..MaxRows, d \in Slack, kind \in Contents :
       /\ w * h + d >= 0
       /\ width = w
       /\ height = h
       /\ buf = Bytes(kind, w * h + d)
  /\ build \in {"debug", "release"}
  /\ img = <<>>
  /\ first = <<>>
  /\ round = 1
  /\ pc = "call_decode"
  /\ blk = 0
  /\ result = <<>>
  /\ wpump = NoPump
  /\ encLog = <<>>
  /\ row = 0
  /\ out = <<>>
  /\ rpump = NoReader
  /\ decLog = <<>>
  /\ outcome = "none"
  /\ fields = <<>>
  /\ reads = <<>>
  /\ query = 0
  /\ found = [bs |-> 0, index |-> 0]

NextDecode ==
  \/ DecodeEnter
  \/ DecodeRow
  \/ DecodeReturn

SpecDecode == InitDecode /\ [][NextDecode]_vars

\* C2 as stated: decode_arw2 called with a width that is not a multiple of 32,
\* or with a buffer shorter than width * height bytes, ends with an
\* InvalidGeometry error, not with a panic and not with samples.
C2_InvalidGeometry ==
  (pc = "decoded" /\ (width % 32 # 0 \/ Len(buf) < width * height))
    => outcome = "InvalidGeometry"

\* C6 as stated: for a width that is a positive multiple of 32, a height >= 1
\* and a buffer of exactly width * height bytes of any contents, decode_arw2
\* returns width * height samples, no refill reads past the end of the buffer,
\* and the reader of row r only reads the width bytes of that row.
C6_DecodeInBounds ==
  (width > 0 /\ width % 32 = 0 /\ height >= 1 /\ Len(buf) = width * height)
    => /\ outcome # "panic"
       /\ ~rpump.fault
       /\ rpump.pos <= width
       /\ outcome = "returned" => Len(out) = width * height

(***************************************************************************)
(* reverse_lookup on the centers of the curve                               *)
(***************************************************************************)
InitCurve ==
  /\ width = 0
  /\ height = 0
  /\ build = "release"
  /\ img = <<>>
  /\ first = <<>>
  /\ round = 1
  /\ pc = "curve"
  /\ blk = 0
  /\ result = <<>>
  /\ wpump = NoPump
  /\ encLog = <<>>
  /\ buf = <<>>
  /\ row = 0
  /\ out = <<>>
  /\ rpump = NoReader
  /\ decLog = <<>>
  /\ outcome = "none"
  /\ fields = <<>>
  /\ reads = <<>>
  /\ query = 0
  /\ found = [bs |-> 0, index |-> 0]

\* reverse_lookup(center[i]) for a curve index i.
Lookup ==
  /\ pc = "curve"
  /\ \E i \in 0..(TableLen - 1) :
       /\ query' = calculate_curve[i][1]
       /\ \E bs \in binary_search(calculate_curve[i][1]) :
            found' = [bs |-> bs, index |-> ScanWindow(bs, calculate_curve[i][1])]
  /\ pc' = "looked_up"
  /\ UNCHANGED <<width, height, build, img, first, round, blk, result, wpump,
                 encLog, buf, row, out, rpump, decLog, outcome, fields, reads>>

NextCurve == Lookup

SpecCurve == InitCurve /\ [][NextCurve]_vars

\* C5 as stated: for every curve index i, reverse_lookup(center[i]) returns an
\* index whose center is at least as close to center[i] as the center of every
\* table entry within 2 positions of the binary-search result (the window
\* clipped to 0..4095), and the first such index in scan order.
C5_NearestMatch ==
  pc = "looked_up" =>
    LET dist(k) == Abs(calculate_curve[k][1] - query)
        window == Max(0, found.bs - 2)..Min(TableLen - 1, found.bs + 2)
    IN /\ found.index \in window
       /\ \A m \in window : dist(found.index) <= dist(m)
       /\ \A m \in window : m < found.index => dist(m) > dist(found.index)

(***************************************************************************)
(* ReverseBitPump -> BitPumpLSB round trip                                  *)
(***************************************************************************)
MaxFields == 3

\* Field widths, and u32 values: none, all and every third bit set.
Widths == {4, 7, 11, 16, 21, 32}

Values == {Zero64,
           [i \in 1..64 |-> IF i <= 32 THEN 1 ELSE 0],
           [i \in 1..64 |-> IF i <= 32 /\ i % 3 = 1 THEN 1 ELSE 0]}

InitPump ==
  /\ width = 0
  /\ height = 0
  /\ build = "release"
  /\ img = <<>>
  /\ first = <<>>
  /\ round = 1
  /\ pc = "push"
  /\ blk = 0
  /\ result = <<>>
  /\ wpump = ReverseBitPump
  /\ encLog = <<>>
  /\ buf = <<>>
  /\ row = 0
  /\ out = <<>>
  /\ rpump = NoReader
  /\ decLog = <<>>
  /\ outcome = "none"
  /\ fields = <<>>
  /\ reads = <<>>
  /\ query = 0
  /\ found = [bs |-> 0, index |-> 0]

RECURSIVE TotalBits(_)
TotalBits(fs) == IF fs = <<>> THEN 0 ELSE fs[1][2] + TotalBits(Tail(fs))

\* pump.push_bits(val, n_bits)
Push ==
  /\ pc = "push"
  /\ Len(fields) < MaxFields
  /\ \E val \in Values, n_bits \in Widths :
       /\ fields' = Append(fields, <<val, n_bits>>)
       /\ wpump' = push_bits(wpump, val, n_bits)
  /\ UNCHANGED <<width, height, build, img, first, round, pc, blk, result,
                 encLog, buf, row, out, rpump, decLog, outcome, reads, query,
                 found>>

\* pump.into_data() once the widths sum to a multiple of 32 bits, and
\* BitPumpLSB::new over the bytes.
IntoData ==
  /\ pc = "push"
  /\ fields # <<>>
  /\ TotalBits(fields) % 32 = 0
  /\ IF wpump.n_bits # 0               \* assert_eq!(self.n_bits, 0)
     THEN outcome' = "panic" /\ pc' = "pushed" /\ UNCHANGED <<buf, rpump>>
     ELSE /\ buf' = wpump.data
          /\ rpump' = BitPumpLSB(wpump.data)
          /\ pc' = "read"
          /\ UNCHANGED outcome
  /\ UNCHANGED <<width, height, build, img, first, round, blk, result, wpump,
                 encLog, row, out, decLog, fields, reads, query, found>>

\* pump.get_bits(n_k) for the next field.
Get ==
  /\ pc = "read"
  /\ Len(reads) < Len(fields)
  /\ LET g == get_bits(rpump, fields[Len(reads) + 1][2])
     IN /\ rpump' = g[1]
        /\ IF g[1].fault
           THEN outcome' = "panic" /\ pc' = "pushed" /\ UNCHANGED reads
           ELSE reads' = Append(reads, g[2]) /\ UNCHANGED <<outcome, pc>>
  /\ UNCHANGED <<width, height, build, img, first, round, blk, result, wpump,
                 encLog, buf, row, out, decLog, fields, query, found>>

NextPump ==
  \/ Push
  \/ IntoData
  \/ Get

SpecPump == InitPump /\ [][NextPump]_vars

\* C10: for fields (v_k, n_k), 1 <= n_k <= 32, whose widths sum to a multiple
\* of 32 bits, pushing them in order with push_bits and reading the bytes back
\* with get_bits(n_k) in the same order returns v_k mod 2^n_k for every k, and
\* the reader never refills past the end of the bytes.
C10_PumpRoundTrip ==
  /\ outcome # "panic"
  /\ pc = "read" =>
       /\ ~rpump.fault
       /\ rpump.pos <= Len(buf)
       /\ 8 * Len(buf) = TotalBits(fields)
       /\ \A k \in 1..Len(reads) : reads[k] = MaskLow(fields[k][1], fields[k][2])

\* Three fields of 16, 32 and 16 bits, the second read across a refill, with
\* bits set above the field width, have all been read back.
C10_Witness ==
  /\ pc = "read"
  /\ Len(reads) = 3
  /\ fields[1][2] = 16 /\ fields[2][2] = 32 /\ fields[3][2] = 16
  /\ fields[1][1][17] = 1
  /\ reads[2][32] = 1
  /\ rpump.pos = 8

====
